---- MODULE Spec2Model ----
(***************************************************************************)
(* A model of plugins/catalog/src/components/CatalogPage/utils/timeUtil.js *)
(* The file holds two independent units:                                   *)
(*   - getTimeBasedGreeting, a greeting picked by hour bucket and by a     *)
(*     seed drawn once at module load;                                     *)
(*   - ScaffolderClient, with scaffold, getTask and streamLogs.            *)
(* Each unit has its own specification (SpecGreeting, SpecRequests,        *)
(* SpecStream); the variables of the other units stay at their initial     *)
(* values.  zen-observable and the browser's EventSource are modelled by   *)
(* their documented behaviour at the places the client uses them.          *)
(***************************************************************************)
EXTENDS Integers, Sequences, FiniteSets, TLC

VARIABLES
    \* ---- greeting unit
    greetingRandomSeed,   \* module constant drawn at load (line 49)
    goodMorning,          \* imported locale tables, as sequences of
    goodAfternoon,        \*   [key, greeting] entries in Object.keys order
    goodEvening,
    greetingCalls,        \* history: <<[hour, result]>> of the calls made
    \* ---- environment of the client
    idToken,              \* what identityApi.getIdToken() resolves with
    requests,             \* the outbound requests made so far
    \* ---- ScaffolderClient.scaffold (one call)
    scaffoldPc,           \* position of the async function
    scaffoldArgs,         \* [templateName, values]
    scaffoldToken,        \* local const token
    scaffoldResponse,     \* local const response
    scaffoldReads,        \* body readers used on the response: "text", "json"
    scaffoldOutcome,      \* the returned promise
    \* ---- ScaffolderClient.getTask (one call)
    getTaskPc,
    getTaskArgs,          \* taskId
    getTaskToken,
    getTaskResponse,
    getTaskOutcome,
    \* ---- ScaffolderClient.streamLogs (one call, several subscriptions)
    observable,           \* the returned Observable: [called, taskId, after]
    subscription,         \* per subscription: zen-observable state and what
                          \*   the observer has received
    unsubscribed,         \* per subscription: unsubscribe() was called
    lookup,               \* per subscription: the getBaseUrl promise
    discoveryCalls,       \* number of getBaseUrl calls made by streamLogs
    eventSource,          \* per subscription: the EventSource it created
    arrived               \* per subscription: events dispatched on its source

greetingVars == <<greetingRandomSeed, goodMorning, goodAfternoon, goodEvening,
                  greetingCalls>>

envVars == <<idToken, requests>>

scaffoldVars == <<scaffoldPc, scaffoldArgs, scaffoldToken, scaffoldResponse,
                  scaffoldReads, scaffoldOutcome>>

getTaskVars == <<getTaskPc, getTaskArgs, getTaskToken, getTaskResponse,
                 getTaskOutcome>>

streamVars == <<observable, subscription, unsubscribed, lookup, discoveryCalls,
                eventSource, arrived>>

vars == <<greetingVars, envVars, scaffoldVars, getTaskVars, streamVars>>

notGreeting == <<envVars, scaffoldVars, getTaskVars, streamVars>>
notScaffold == <<greetingVars, getTaskVars, streamVars>>
notGetTask == <<greetingVars, scaffoldVars, streamVars>>
notStream == <<greetingVars, scaffoldVars, getTaskVars>>

----------------------------------------------------------------------------
(* Bounds of the model *)

\* seeds are drawn from 0..MaxSeed instead of 0..999999
MaxSeed == 4
\* every locale table has between 1 and MaxKeys keys
MaxKeys == 2
\* number of getTimeBasedGreeting calls recorded in one process run
MaxCalls == 2
\* number of subscriptions made to the observable streamLogs returns
MaxSubs == 2
\* number of events dispatched on all event sources together
MaxEvents == 2
\* number of connection attempts one EventSource makes
MaxAttempts == 2

----------------------------------------------------------------------------
(* Greeting unit *)

Hours == 0..23

\* The locale files are data; only their key order and lookups matter.
\* A table is a prefix of one of these entry lists, which differ in order.
MorningEntries ==
    << [key |-> "English", greeting |-> "Good morning"],
       [key |-> "Spanish", greeting |-> "Buenos dias"],
       [key |-> "French",  greeting |-> "Bonjour"],
       [key |-> "German",  greeting |-> "Guten Morgen"] >>

AfternoonEntries ==
    << [key |-> "Spanish", greeting |-> "Buenas tardes"],
       [key |-> "German",  greeting |-> "Guten Tag"],
       [key |-> "English", greeting |-> "Good afternoon"],
       [key |-> "French",  greeting |-> "Bon apres-midi"] >>

EveningEntries ==
    << [key |-> "French",  greeting |-> "Bonsoir"],
       [key |-> "English", greeting |-> "Good evening"],
       [key |-> "German",  greeting |-> "Guten Abend"],
       [key |-> "Spanish", greeting |-> "Buenas noches"] >>

Min(a, b) == IF a < b THEN a ELSE b

Tables(entries) ==
    { SubSeq(entries, 1, n) : n \in 1..Min(MaxKeys, Len(entries)) }

\* Object.keys(greetings)
ObjectKeys(greetings) == [i \in 1..Len(greetings) |-> greetings[i].key]

\* greetings[greetingsKey]
Lookup(greetings, k) ==
    greetings[CHOOSE i \in 1..Len(greetings) : greetings[i].key = k].greeting

\* A seed drawn again at every call instead of once at load.
randomPerCall(array) ==
    array[((greetingRandomSeed + Len(greetingCalls)) % Len(array)) + 1]

\* const random = array => array[greetingRandomSeed % array.length]
random(array) == array[(greetingRandomSeed % Len(array)) + 1]

\* The bucket limits taken inclusively.
timeOfDayInclusive(hour) ==
    IF hour <= 12 THEN goodMorning
    ELSE IF hour <= 17 THEN goodAfternoon
    ELSE goodEvening

\* const timeOfDay = hour => { ... }
timeOfDay(hour) ==
    IF hour < 12 THEN goodMorning
    ELSE IF hour < 17 THEN goodAfternoon
    ELSE goodEvening

\* getTimeBasedGreeting() with currentHour read from the clock
getTimeBasedGreeting(currentHour) ==
    IF currentHour >= 23
    THEN [language |-> "Seriously", greeting |-> "Get some rest"]
    ELSE LET greetings == timeOfDay(currentHour)
             greetingsKey == random(ObjectKeys(greetings))
         IN  [language |-> greetingsKey,
              greeting |-> Lookup(greetings, greetingsKey)]

\* One call of getTimeBasedGreeting() at local hour h.
CallGreeting ==
    /\ Len(greetingCalls) < MaxCalls
    /\ \E h \in Hours :
         greetingCalls' = Append(greetingCalls,
                                 [hour |-> h, result |-> getTimeBasedGreeting(h)])
    /\ UNCHANGED <<greetingRandomSeed, goodMorning, goodAfternoon, goodEvening,
                   notGreeting>>

----------------------------------------------------------------------------
(* Strings, JSON and URLs as the client uses them *)

\* A string is a sequence of pieces; Whitespace are the pieces trim() removes.
Whitespace == {" ", "\n"}

RECURSIVE TrimStart(_)
TrimStart(s) ==
    IF s # << >> /\ Head(s) \in Whitespace THEN TrimStart(Tail(s)) ELSE s

RECURSIVE TrimEnd(_)
TrimEnd(s) ==
    IF s # << >> /\ s[Len(s)] \in Whitespace
    THEN TrimEnd(SubSeq(s, 1, Len(s) - 1))
    ELSE s

\* String.prototype.trim
Trim(s) == TrimEnd(TrimStart(s))

Undefined == "undefined"

\* JSON documents the backend may send, with the value each parses to.
JsonNull == [type |-> "null", fields |-> {}]
JsonObject(fields) == [type |-> "object", fields |-> fields]

JsonDocuments ==
    { "{\"id\":\"abc\"}", "{}", "null",
      "{\"id\":\"t1\",\"status\":\"completed\"}", "{\"error\":\"NotFound\"}",
      "{\"id\":\"1\",\"type\":\"log\"}", "{\"id\":\"2\",\"type\":\"log\"}",
      "{\"id\":\"3\",\"type\":\"completion\"}" }

JsonValueOf(doc) ==
    CASE doc = "{\"id\":\"abc\"}" -> JsonObject({<<"id", "abc">>})
      [] doc = "{}" -> JsonObject({})
      [] doc = "null" -> JsonNull
      [] doc = "{\"id\":\"t1\",\"status\":\"completed\"}" ->
             JsonObject({<<"id", "t1">>, <<"status", "completed">>})
      [] doc = "{\"error\":\"NotFound\"}" -> JsonObject({<<"error", "NotFound">>})
      [] doc = "{\"id\":\"1\",\"type\":\"log\"}" ->
             JsonObject({<<"id", "1">>, <<"type", "log">>})
      [] doc = "{\"id\":\"2\",\"type\":\"log\"}" ->
             JsonObject({<<"id", "2">>, <<"type", "log">>})
      [] doc = "{\"id\":\"3\",\"type\":\"completion\"}" ->
             JsonObject({<<"id", "3">>, <<"type", "completion">>})

\* JSON.parse / Response.json: whitespace around the document is allowed,
\* anything else is a SyntaxError.
JsonParse(text) ==
    LET t == Trim(text)
    IN  IF Len(t) = 1 /\ t[1] \in JsonDocuments
        THEN [ok |-> TRUE, value |-> JsonValueOf(t[1])]
        ELSE [ok |-> FALSE, value |-> JsonNull]

\* obj[field]
GetField(obj, field) ==
    IF \E p \in obj.fields : p[1] = field
    THEN (CHOOSE p \in obj.fields : p[1] = field)[2]
    ELSE Undefined

\* `${response.status}`
StatusString(status) ==
    CASE status = 200 -> "200"
      [] status = 201 -> "201"
      [] status = 404 -> "404"
      [] status = 500 -> "500"

\* encodeURIComponent, on strings given as sequences of characters
Unreserved == {"t", "1", "a", "b"}

PercentCode(c) ==
    CASE c = "/" -> <<"%", "2", "F">>
      [] c = " " -> <<"%", "2", "0">>

RECURSIVE encodeURIComponent(_)
encodeURIComponent(s) ==
    IF s = << >> THEN << >>
    ELSE (IF Head(s) \in Unreserved THEN <<Head(s)>> ELSE PercentCode(Head(s)))
         \o encodeURIComponent(Tail(s))

\* token && {...} / token ? ... : ... : undefined and "" are falsy
Truthy(token) == token # Undefined /\ token # ""

\* `Bearer ${token}`
Bearer(token) == <<"Authorization", <<"Bearer ", token>>>>

----------------------------------------------------------------------------
(* Inputs of the client *)

Tokens == {Undefined, "", "secret"}
BaseUrls == {"http://localhost:7000/api/scaffolder"}
TaskIds == { <<"t", "1">>, <<"a", "/", "b">> }
TemplateNames == {"react-ssr-template"}
TemplateValues == { {<<"name", "my-app">>} }

Bodies ==
    { <<"{\"id\":\"abc\"}">>,
      <<" ", "{\"id\":\"t1\",\"status\":\"completed\"}", "\n">>,
      <<"{}">>,
      <<"null">>,
      <<"\n", "{\"error\":\"NotFound\"}">>,
      <<" ", "oops", " ", "again", "\n">>,
      << >> }

Responses ==
    { [status |-> st[1], statusText |-> st[2], body |-> b] :
        st \in { <<200, "OK">>, <<201, "Created">>, <<404, "Not Found">>,
                 <<500, "Internal Server Error">> },
        b \in Bodies }

NoResponse == [status |-> 0, statusText |-> "", body |-> << >>]

Pending == [kind |-> "pending", value |-> Undefined,
            error |-> [name |-> "", message |-> << >>]]
Resolved(v) == [kind |-> "resolved", value |-> v,
                error |-> [name |-> "", message |-> << >>]]
Rejected(name, message) ==
    [kind |-> "rejected", value |-> Undefined,
     error |-> [name |-> name, message |-> message]]

\* Failures the collaborators raise
IdentityFailure == Rejected("IdentityError", <<"no session">>)
DiscoveryFailure == Rejected("DiscoveryError", <<"no such plugin">>)
FetchFailure == Rejected("TypeError", <<"Failed to fetch">>)
JsonFailure == Rejected("SyntaxError", <<"Unexpected token">>)
DestructureFailure == Rejected("TypeError", <<"Cannot destructure property">>)

----------------------------------------------------------------------------
(* ScaffolderClient.scaffold *)

\* headers: {'Content-Type': ..., ...(token && {Authorization: ...})}
ScaffoldHeaders(token) ==
    {<<"Content-Type", "application/json">>}
        \cup (IF Truthy(token) THEN {Bearer(token)} ELSE {})

\* fetch(url, {method: 'POST', headers, body})
ScaffoldRequest(baseUrl, token, args) ==
    [op |-> "scaffold", method |-> "POST",
     url |-> <<baseUrl, "/v2/tasks">>,
     headers |-> ScaffoldHeaders(token),
     body |-> JsonObject({<<"templateName", args.templateName>>,
                          <<"values", args.values>>}),
     sub |-> 0, attempt |-> 1]

\* A check of response.ok in place of the created status.
StatusNotOk(response) == response.status \notin 200..299

\* if (response.status !== 201)
StatusNotCreated(response) == response.status # 201

\* throw new Error(`Backend request failed, ${status} ${body.trim()}`)
BackendRequestFailed(response, body) ==
    Rejected("Error",
             <<"Backend request failed, ", StatusString(response.status), " ",
               response.statusText, " ">> \o Trim(body))

\* const { id } = await response.json(); return id
ScaffoldReturn(response) ==
    LET parsed == JsonParse(response.body)
    IN  IF ~parsed.ok THEN JsonFailure
        ELSE IF parsed.value.type = "null" THEN DestructureFailure
        ELSE Resolved(GetField(parsed.value, "id"))

\* scaffold(templateName, values) is called
ScaffoldStart ==
    /\ scaffoldPc = "idle"
    /\ \E t \in TemplateNames, v \in TemplateValues :
         scaffoldArgs' = [templateName |-> t, values |-> v]
    /\ scaffoldPc' = "getIdToken"
    /\ UNCHANGED <<scaffoldToken, scaffoldResponse, scaffoldReads,
                   scaffoldOutcome, envVars, notScaffold>>

\* await this.identityApi.getIdToken()
ScaffoldIdToken ==
    /\ scaffoldPc = "getIdToken"
    /\ \/ /\ scaffoldToken' = idToken
          /\ scaffoldPc' = "getBaseUrl"
          /\ UNCHANGED scaffoldOutcome
       \/ /\ scaffoldOutcome' = IdentityFailure
          /\ scaffoldPc' = "done"
          /\ UNCHANGED scaffoldToken
    /\ UNCHANGED <<scaffoldArgs, scaffoldResponse, scaffoldReads, envVars, notScaffold>>

\* await this.discoveryApi.getBaseUrl('scaffolder'), then fetch is called
ScaffoldBaseUrl ==
    /\ scaffoldPc = "getBaseUrl"
    /\ \/ /\ \E baseUrl \in BaseUrls :
               requests' = requests \cup
                   {ScaffoldRequest(baseUrl, scaffoldToken, scaffoldArgs)}
          /\ scaffoldPc' = "fetch"
          /\ UNCHANGED scaffoldOutcome
       \/ /\ scaffoldOutcome' = DiscoveryFailure
          /\ scaffoldPc' = "done"
          /\ UNCHANGED requests
    /\ UNCHANGED <<scaffoldArgs, scaffoldToken, scaffoldResponse,
                   scaffoldReads, idToken, notScaffold>>

\* await fetch(...), then the status check picks the body reader
ScaffoldFetch ==
    /\ scaffoldPc = "fetch"
    /\ \/ /\ \E response \in Responses :
               /\ scaffoldResponse' = response
               /\ scaffoldPc' = IF StatusNotCreated(response) THEN "text" ELSE "json"
          /\ UNCHANGED scaffoldOutcome
       \/ /\ scaffoldOutcome' = FetchFailure
          /\ scaffoldPc' = "done"
          /\ UNCHANGED scaffoldResponse
    /\ UNCHANGED <<scaffoldArgs, scaffoldToken, scaffoldReads, envVars, notScaffold>>

\* await response.text(), then throw
ScaffoldText ==
    /\ scaffoldPc = "text"
    /\ scaffoldReads' = scaffoldReads \cup {"text"}
    /\ scaffoldOutcome' = BackendRequestFailed(scaffoldResponse, scaffoldResponse.body)
    /\ scaffoldPc' = "done"
    /\ UNCHANGED <<scaffoldArgs, scaffoldToken, scaffoldResponse, envVars, notScaffold>>

\* await response.json(), then return id
ScaffoldJson ==
    /\ scaffoldPc = "json"
    /\ scaffoldReads' = scaffoldReads \cup {"json"}
    /\ scaffoldOutcome' = ScaffoldReturn(scaffoldResponse)
    /\ scaffoldPc' = "done"
    /\ UNCHANGED <<scaffoldArgs, scaffoldToken, scaffoldResponse, envVars, notScaffold>>

----------------------------------------------------------------------------
(* ScaffolderClient.getTask *)

\* headers: token ? { Authorization: `Bearer ${token}` } : {}
GetTaskHeaders(token) == IF Truthy(token) THEN {Bearer(token)} ELSE {}

\* fetch(url, {headers})
GetTaskRequest(baseUrl, token, taskId) ==
    [op |-> "getTask", method |-> "GET",
     url |-> <<baseUrl, "/v2/tasks/">> \o encodeURIComponent(taskId),
     headers |-> GetTaskHeaders(token),
     body |-> JsonNull,
     sub |-> 0, attempt |-> 1]

\* A reader that rejects the responses that are not ok.
JsonIfOk(x) ==
    IF x.status \notin 200..299
    THEN Rejected("Error", <<"Request failed, ", StatusString(x.status)>>)
    ELSE IF JsonParse(x.body).ok THEN Resolved(JsonParse(x.body).value)
    ELSE JsonFailure

\* .then(x => x.json())
ThenJson(x) ==
    IF JsonParse(x.body).ok THEN Resolved(JsonParse(x.body).value)
    ELSE JsonFailure

\* getTask(taskId) is called
GetTaskStart ==
    /\ getTaskPc = "idle"
    /\ \E taskId \in TaskIds : getTaskArgs' = taskId
    /\ getTaskPc' = "getIdToken"
    /\ UNCHANGED <<getTaskToken, getTaskResponse, getTaskOutcome, envVars, notGetTask>>

\* await this.identityApi.getIdToken()
GetTaskIdToken ==
    /\ getTaskPc = "getIdToken"
    /\ \/ /\ getTaskToken' = idToken
          /\ getTaskPc' = "getBaseUrl"
          /\ UNCHANGED getTaskOutcome
       \/ /\ getTaskOutcome' = IdentityFailure
          /\ getTaskPc' = "done"
          /\ UNCHANGED getTaskToken
    /\ UNCHANGED <<getTaskArgs, getTaskResponse, envVars, notGetTask>>

\* await this.discoveryApi.getBaseUrl('scaffolder'), then fetch is called
GetTaskBaseUrl ==
    /\ getTaskPc = "getBaseUrl"
    /\ \/ /\ \E baseUrl \in BaseUrls :
               requests' = requests \cup
                   {GetTaskRequest(baseUrl, getTaskToken, getTaskArgs)}
          /\ getTaskPc' = "fetch"
          /\ UNCHANGED getTaskOutcome
       \/ /\ getTaskOutcome' = DiscoveryFailure
          /\ getTaskPc' = "done"
          /\ UNCHANGED requests
    /\ UNCHANGED <<getTaskArgs, getTaskToken, getTaskResponse, idToken, notGetTask>>

\* the fetch promise settles
GetTaskFetch ==
    /\ getTaskPc = "fetch"
    /\ \/ /\ \E response \in Responses : getTaskResponse' = response
          /\ getTaskPc' = "json"
          /\ UNCHANGED getTaskOutcome
       \/ /\ getTaskOutcome' = FetchFailure
          /\ getTaskPc' = "done"
          /\ UNCHANGED getTaskResponse
    /\ UNCHANGED <<getTaskArgs, getTaskToken, envVars, notGetTask>>

\* x.json() settles, and with it the returned promise
GetTaskJson ==
    /\ getTaskPc = "json"
    /\ getTaskOutcome' = ThenJson(getTaskResponse)
    /\ getTaskPc' = "done"
    /\ UNCHANGED <<getTaskArgs, getTaskToken, getTaskResponse, envVars, notGetTask>>

----------------------------------------------------------------------------
(* ScaffolderClient.streamLogs *)

Subs == 1..MaxSubs

StreamTaskIds == { <<"a", "/", "b">> }

\* the optional number `after`: << >> stands for undefined
Afters == { << >>, <<5>> }

\* String(Number(after))
NumberString(n) ==
    CASE n = 0 -> "0"
      [] n = 5 -> "5"

\* const params = new URLSearchParams(); if (after !== undefined) params.set(...)
StreamParams(after) ==
    IF after # << >> THEN {<<"after", NumberString(after[1])>>} ELSE {}

\* const url = `${baseUrl}/v2/tasks/${encodeURIComponent(taskId)}/eventstream`
\* (the template does not mention params)
StreamUrl(baseUrl, taskId) ==
    <<baseUrl, "/v2/tasks/">> \o encodeURIComponent(taskId) \o <<"/eventstream">>

\* new EventSource(url): the request of one connection attempt; the
\* constructor is given no headers and no options
StreamRequest(url, s, n) ==
    [op |-> "streamLogs", method |-> "GET", url |-> url, headers |-> {},
     body |-> JsonNull, sub |-> s, attempt |-> n]

NoSource == [readyState |-> "NONE", waiting |-> FALSE, attempts |-> 0,
             url |-> << >>]

\* Events the browser dispatches on an EventSource
LogData ==
    { << >>, <<"oops">>, <<"{\"id\":\"1\",\"type\":\"log\"}">>,
      <<"{\"id\":\"2\",\"type\":\"log\"}">> }
CompletionData ==
    { << >>, <<"oops">>, <<"{\"id\":\"3\",\"type\":\"completion\"}">> }

MessageEvents ==
    { [type |-> "log", data |-> d] : d \in LogData }
        \cup { [type |-> "completion", data |-> d] : d \in CompletionData }

ErrorEvent == [type |-> "error", data |-> << >>]

\* Notifications an observer receives
NextN(v) == [kind |-> "next", value |-> v, error |-> ""]
ErrorN(e) == [kind |-> "error", value |-> JsonNull, error |-> e]
CompleteN == [kind |-> "complete", value |-> JsonNull, error |-> ""]

NoSubscription == [state |-> "none", received |-> << >>]

\* A subscriber.next that does not look at the subscription's state.
SubscriberNextAlways(sub, v) ==
    [sub EXCEPT !.received = Append(@, NextN(v))]

\* subscriber.next(v): dropped once the subscription is closed
SubscriberNext(sub, v) ==
    IF sub.state # "ready" THEN sub
    ELSE [sub EXCEPT !.received = Append(@, NextN(v))]

\* subscriber.error(e): closes the subscription, then notifies
SubscriberError(sub, e) ==
    IF sub.state # "ready" THEN sub
    ELSE [state |-> "closed", received |-> Append(sub.received, ErrorN(e))]

\* subscriber.complete(): closes the subscription, then notifies
SubscriberComplete(sub) ==
    IF sub.state # "ready" THEN sub
    ELSE [state |-> "closed", received |-> Append(sub.received, CompleteN)]

\* if (event.data) { try { subscriber.next(JSON.parse(event.data)) }
\*                   catch (ex) { subscriber.error(ex) } }
TryNext(sub, event) ==
    IF event.data # << >>
    THEN LET parsed == JsonParse(event.data)
         IN  IF parsed.ok THEN SubscriberNext(sub, parsed.value)
             ELSE SubscriberError(sub, "SyntaxError")
    ELSE sub

\* the 'log' listener
OnLog(sub, event) == TryNext(sub, event)

\* the 'completion' listener
OnCompletion(sub, event) == SubscriberComplete(TryNext(sub, event))

\* the 'error' listener
OnError(sub, event) == SubscriberError(sub, "ErrorEvent")

Dispatch(sub, event) ==
    CASE event.type = "log" -> OnLog(sub, event)
      [] event.type = "completion" -> OnCompletion(sub, event)
      [] event.type = "error" -> OnError(sub, event)

RECURSIVE SumLen(_, _)
SumLen(f, S) ==
    IF S = {} THEN 0
    ELSE LET x == CHOOSE y \in S : TRUE IN Len(f[x]) + SumLen(f, S \ {x})

EventsDispatched == SumLen(arrived, Subs)

\* A streamLogs that starts the discovery lookup when it is called.
StreamLogsCallEager ==
    /\ ~observable.called
    /\ \E taskId \in StreamTaskIds, after \in Afters :
         observable' = [called |-> TRUE, taskId |-> taskId, after |-> after]
    /\ discoveryCalls' = discoveryCalls + 1
    /\ UNCHANGED <<subscription, unsubscribed, lookup, eventSource, arrived,
                   envVars, notStream>>

\* streamLogs({taskId, after}): returns new ObservableImpl(subscriber => ...)
StreamLogsCall ==
    /\ ~observable.called
    /\ \E taskId \in StreamTaskIds, after \in Afters :
         observable' = [called |-> TRUE, taskId |-> taskId, after |-> after]
    /\ UNCHANGED <<subscription, unsubscribed, lookup, discoveryCalls,
                   eventSource, arrived, envVars, notStream>>

\* observable.subscribe(observer): runs the subscriber function, which builds
\* params and calls getBaseUrl; it returns no teardown function.
\* Subscriptions are numbered in the order they are made.
Subscribe(s) ==
    /\ observable.called
    /\ subscription[s].state = "none"
    /\ \A t \in Subs : t < s => subscription[t].state # "none"
    /\ subscription' = [subscription EXCEPT ![s].state = "ready"]
    /\ lookup' = [lookup EXCEPT
                    ![s] = [state |-> "pending",
                            params |-> StreamParams(observable.after)]]
    /\ discoveryCalls' = discoveryCalls + 1
    /\ UNCHANGED <<observable, unsubscribed, eventSource, arrived, envVars,
                   notStream>>

\* subscription.unsubscribe(): closes the subscription; there is no teardown
\* function to run, so the event source is left as it is
Unsubscribe(s) ==
    /\ subscription[s].state = "ready"
    /\ subscription' = [subscription EXCEPT ![s].state = "closed"]
    /\ unsubscribed' = [unsubscribed EXCEPT ![s] = TRUE]
    /\ UNCHANGED <<observable, lookup, discoveryCalls, eventSource, arrived,
                   envVars, notStream>>

\* getBaseUrl resolves: baseUrl => { ... new EventSource(url) ... }
LookupResolve(s) ==
    /\ lookup[s].state = "pending"
    /\ lookup' = [lookup EXCEPT ![s].state = "resolved"]
    /\ \E baseUrl \in BaseUrls :
         LET url == StreamUrl(baseUrl, observable.taskId)
         IN  /\ eventSource' = [eventSource EXCEPT
                   ![s] = [readyState |-> "CONNECTING", waiting |-> FALSE,
                           attempts |-> 1, url |-> url]]
             /\ requests' = requests \cup {StreamRequest(url, s, 1)}
    /\ UNCHANGED <<observable, subscription, unsubscribed, discoveryCalls,
                   arrived, idToken, notStream>>

\* getBaseUrl rejects: error => { subscriber.error(error) }
LookupReject(s) ==
    /\ lookup[s].state = "pending"
    /\ lookup' = [lookup EXCEPT ![s].state = "rejected"]
    /\ subscription' = [subscription EXCEPT
                          ![s] = SubscriberError(@, "DiscoveryError")]
    /\ UNCHANGED <<observable, unsubscribed, discoveryCalls, eventSource,
                   arrived, envVars, notStream>>

\* EventSource: the connection is established
SourceOpen(s) ==
    /\ eventSource[s].readyState = "CONNECTING"
    /\ ~eventSource[s].waiting
    /\ eventSource' = [eventSource EXCEPT ![s].readyState = "OPEN"]
    /\ UNCHANGED <<observable, subscription, unsubscribed, lookup,
                   discoveryCalls, arrived, envVars, notStream>>

\* EventSource: a 'log' or 'completion' event is dispatched to its listener
SourceMessage(s) ==
    /\ eventSource[s].readyState = "OPEN"
    /\ EventsDispatched < MaxEvents
    /\ \E event \in MessageEvents :
         /\ arrived' = [arrived EXCEPT ![s] = Append(@, event)]
         /\ subscription' = [subscription EXCEPT ![s] = Dispatch(@, event)]
    /\ UNCHANGED <<observable, unsubscribed, lookup, discoveryCalls,
                   eventSource, envVars, notStream>>

\* EventSource: the connection fails or drops and 'error' is dispatched.  The
\* browser either gives up (readyState CLOSED) or, as nobody called close(),
\* goes back to CONNECTING and waits to reconnect.
SourceError(s) ==
    /\ \/ eventSource[s].readyState = "OPEN"
       \/ eventSource[s].readyState = "CONNECTING" /\ ~eventSource[s].waiting
    /\ EventsDispatched < MaxEvents
    /\ \E fatal \in BOOLEAN :
         eventSource' = [eventSource EXCEPT
             ![s].readyState = IF fatal THEN "CLOSED" ELSE "CONNECTING",
             ![s].waiting = ~fatal]
    /\ arrived' = [arrived EXCEPT ![s] = Append(@, ErrorEvent)]
    /\ subscription' = [subscription EXCEPT ![s] = Dispatch(@, ErrorEvent)]
    /\ UNCHANGED <<observable, unsubscribed, lookup, discoveryCalls, envVars,
                   notStream>>

\* EventSource: the reconnection time has passed, the connection is attempted
\* again
SourceReconnect(s) ==
    /\ eventSource[s].readyState = "CONNECTING"
    /\ eventSource[s].waiting
    /\ eventSource[s].attempts < MaxAttempts
    /\ eventSource' = [eventSource EXCEPT ![s].waiting = FALSE,
                                          ![s].attempts = @ + 1]
    /\ requests' = requests \cup
           {StreamRequest(eventSource[s].url, s, eventSource[s].attempts + 1)}
    /\ UNCHANGED <<observable, subscription, unsubscribed, lookup,
                   discoveryCalls, arrived, idToken, notStream>>

----------------------------------------------------------------------------
(* Specifications *)

\* Module load: the seed is drawn, the locale tables are imported.
InitGreeting ==
    /\ greetingRandomSeed \in 0..MaxSeed
    /\ goodMorning \in Tables(MorningEntries)
    /\ goodAfternoon \in Tables(AfternoonEntries)
    /\ goodEvening \in Tables(EveningEntries)
    /\ greetingCalls = << >>

\* The greeting unit with the smallest tables and no call made.
IdleGreeting ==
    /\ greetingRandomSeed = 0
    /\ goodMorning = SubSeq(MorningEntries, 1, 1)
    /\ goodAfternoon = SubSeq(AfternoonEntries, 1, 1)
    /\ goodEvening = SubSeq(EveningEntries, 1, 1)
    /\ greetingCalls = << >>

\* new ScaffolderClient({discoveryApi, identityApi}): no call made yet
InitClient ==
    /\ idToken \in Tokens
    /\ requests = {}
    /\ scaffoldPc = "idle"
    /\ scaffoldArgs = [templateName |-> "", values |-> {}]
    /\ scaffoldToken = Undefined
    /\ scaffoldResponse = NoResponse
    /\ scaffoldReads = {}
    /\ scaffoldOutcome = Pending
    /\ getTaskPc = "idle"
    /\ getTaskArgs = << >>
    /\ getTaskToken = Undefined
    /\ getTaskResponse = NoResponse
    /\ getTaskOutcome = Pending

\* streamLogs has not been called
InitStream ==
    /\ observable = [called |-> FALSE, taskId |-> << >>, after |-> << >>]
    /\ subscription = [s \in Subs |-> NoSubscription]
    /\ unsubscribed = [s \in Subs |-> FALSE]
    /\ lookup = [s \in Subs |-> [state |-> "none", params |-> {}]]
    /\ discoveryCalls = 0
    /\ eventSource = [s \in Subs |-> NoSource]
    /\ arrived = [s \in Subs |-> << >>]

InitG == InitGreeting /\ InitClient /\ idToken = Undefined /\ InitStream

NextGreeting == CallGreeting

SpecGreeting == InitG /\ [][NextGreeting]_vars

InitR == IdleGreeting /\ InitClient /\ InitStream

NextRequests ==
    \/ ScaffoldStart \/ ScaffoldIdToken \/ ScaffoldBaseUrl \/ ScaffoldFetch
    \/ ScaffoldText \/ ScaffoldJson
    \/ GetTaskStart \/ GetTaskIdToken \/ GetTaskBaseUrl \/ GetTaskFetch
    \/ GetTaskJson

SpecRequests == InitR /\ [][NextRequests]_vars

NextStream ==
    \/ StreamLogsCall
    \/ \E s \in Subs :
         \/ Subscribe(s) \/ Unsubscribe(s)
         \/ LookupResolve(s) \/ LookupReject(s)
         \/ SourceOpen(s) \/ SourceMessage(s) \/ SourceError(s)
         \/ SourceReconnect(s)

\* streamLogs never asks the identity provider; the provider holds a token
InitS == IdleGreeting /\ InitClient /\ idToken = "secret" /\ InitStream

SpecStream == InitS /\ [][NextStream]_vars

----------------------------------------------------------------------------
(* Claims about the greeting unit *)

Bucket(h) ==
    IF h >= 23 THEN "override"
    ELSE IF h < 12 THEN "morning"
    ELSE IF h < 17 THEN "afternoon"
    ELSE "evening"

CallIdx == 1..Len(greetingCalls)

\* C6 (as stated): within one process run any two calls of
\* getTimeBasedGreeting() return the same {language, greeting} pair,
\* whatever the local hour is at each call.
C6_AnyTwoCallsAgree ==
    \A i, j \in CallIdx : greetingCalls[i].result = greetingCalls[j].result

\* C6 (amended): within one process run any two calls of
\* getTimeBasedGreeting() made at local hours of the same bucket (before 12,
\* 12 to 16, 17 to 22, 23) return the same {language, greeting} pair, whatever
\* the key sets of the locale tables are.
C6_SameBucketCallsAgree ==
    \A i, j \in CallIdx :
        Bucket(greetingCalls[i].hour) = Bucket(greetingCalls[j].hour)
            => greetingCalls[i].result = greetingCalls[j].result

\* Two calls at different hours of one bucket whose table has several keys.
C6_Witness ==
    /\ Len(greetingCalls) >= 2
    /\ greetingCalls[1].hour = 13
    /\ greetingCalls[2].hour = 16
    /\ Len(goodAfternoon) >= 2
    /\ greetingCalls[1].result = greetingCalls[2].result

\* C7: at hour h >= 23 the result is {Seriously, Get some rest}; otherwise it
\* is (k, table[k]) with table the morning set for h < 12, the afternoon set
\* for 12 <= h < 17, the evening set for 17 <= h < 23, and k the key at index
\* (seed mod number of keys) of that table's key order.
C7_GreetingByHourAndSeed ==
    \A i \in CallIdx :
        LET h == greetingCalls[i].hour
            r == greetingCalls[i].result
            table == CASE h \in 0..11  -> goodMorning
                       [] h \in 12..16 -> goodAfternoon
                       [] h \in 17..22 -> goodEvening
                       [] OTHER        -> << >>
            idx == (greetingRandomSeed % Len(table)) + 1
        IN  IF h = 23
            THEN r.language = "Seriously" /\ r.greeting = "Get some rest"
            ELSE r.language = table[idx].key /\ r.greeting = table[idx].greeting

\* A call at a bucket limit with a seed that wraps around the key list, and a
\* call at hour 23.
C7_Witness ==
    /\ Len(greetingCalls) >= 2
    /\ greetingCalls[1].hour = 12
    /\ Len(goodAfternoon) = 2
    /\ greetingRandomSeed = 3
    /\ greetingCalls[1].result.language = "German"
    /\ greetingCalls[2].hour = 23

----------------------------------------------------------------------------
(* Claims about scaffold and getTask *)

ScaffoldAnswered == scaffoldPc = "done" /\ scaffoldResponse # NoResponse

\* C3: scaffold resolves with the id field of the JSON response if and only
\* if the response status is 201; for every other status, other 2xx codes
\* included, it rejects with an error whose message holds the status code,
\* the status text and the trimmed body, and the body is never read as JSON.
C3_ScaffoldOnlyOn201 ==
    ScaffoldAnswered =>
        LET r == scaffoldResponse
            parsed == JsonParse(r.body)
        IN  /\ scaffoldOutcome.kind = "resolved" => r.status = 201
            /\ (r.status = 201 /\ parsed.ok /\ parsed.value.type = "object")
                  => /\ scaffoldOutcome.kind = "resolved"
                     /\ scaffoldOutcome.value = GetField(parsed.value, "id")
            /\ r.status # 201
                  => /\ scaffoldOutcome.kind = "rejected"
                     /\ scaffoldOutcome.error.message =
                           <<"Backend request failed, ", StatusString(r.status),
                             " ", r.statusText, " ">> \o Trim(r.body)
                     /\ "json" \notin scaffoldReads

\* A 200 response whose body is a JSON document with an id, with whitespace
\* around it, has been rejected.
C3_Witness ==
    /\ ScaffoldAnswered
    /\ scaffoldResponse.status = 200
    /\ scaffoldResponse.body = <<" ", "{\"id\":\"t1\",\"status\":\"completed\"}", "\n">>
    /\ scaffoldOutcome.kind = "rejected"
    /\ Len(scaffoldOutcome.error.message) = 6
    /\ scaffoldOutcome.error.message[2] = "200"
    /\ scaffoldOutcome.error.message[6] = "{\"id\":\"t1\",\"status\":\"completed\"}"
    /\ scaffoldReads = {"text"}

GetTaskAnswered == getTaskPc = "done" /\ getTaskResponse # NoResponse

\* C10: getTask returns the parsed JSON body of the response for every HTTP
\* status, without looking at the status; it rejects only when the identity
\* lookup, the discovery lookup, the transport or the JSON parsing fails.
C10_GetTaskIgnoresStatus ==
    getTaskPc = "done" =>
        /\ (GetTaskAnswered /\ JsonParse(getTaskResponse.body).ok)
              => /\ getTaskOutcome.kind = "resolved"
                 /\ getTaskOutcome.value = JsonParse(getTaskResponse.body).value
        /\ getTaskOutcome.kind \in {"resolved", "rejected"}
        /\ getTaskOutcome.kind = "rejected"
              => \/ getTaskOutcome = IdentityFailure /\ getTaskResponse = NoResponse
                 \/ getTaskOutcome = DiscoveryFailure /\ getTaskResponse = NoResponse
                 \/ getTaskOutcome = FetchFailure /\ getTaskResponse = NoResponse
                 \/ /\ getTaskOutcome = JsonFailure
                    /\ GetTaskAnswered
                    /\ ~JsonParse(getTaskResponse.body).ok

\* A 404 response with a JSON error body has been returned as the task.
C10_Witness ==
    /\ GetTaskAnswered
    /\ getTaskResponse.status = 404
    /\ getTaskOutcome.kind = "resolved"
    /\ GetField(getTaskOutcome.value, "error") = "NotFound"

----------------------------------------------------------------------------
(* Claims about streamLogs *)

IsPrefix(a, b) == Len(a) <= Len(b) /\ a = SubSeq(b, 1, Len(a))

Received(s) == subscription[s].received

HasPayload(e) == e.data # << >> /\ JsonParse(e.data).ok
Malformed(e) == e.data # << >> /\ ~JsonParse(e.data).ok
Payload(e) == JsonParse(e.data).value

\* What C1 as stated says a subscriber gets from the events evs: the payloads
\* in order, the end at the first 'completion' or 'error' event.
RECURSIVE ClaimedRun(_)
ClaimedRun(evs) ==
    IF evs = << >> THEN << >>
    ELSE LET e == Head(evs)
             pay == IF HasPayload(e) THEN <<NextN(Payload(e))>> ELSE << >>
         IN  CASE e.type = "log" -> pay \o ClaimedRun(Tail(evs))
               [] e.type = "completion" -> pay \o <<CompleteN>>
               [] e.type = "error" -> <<ErrorN("ErrorEvent")>>

\* The same with the end at the first malformed payload added.
RECURSIVE ExpectedRun(_)
ExpectedRun(evs) ==
    IF evs = << >> THEN << >>
    ELSE LET e == Head(evs)
         IN  CASE e.type = "error" -> <<ErrorN("ErrorEvent")>>
               [] e.type # "error" /\ Malformed(e) -> <<ErrorN("SyntaxError")>>
               [] e.type = "log" /\ HasPayload(e) ->
                      <<NextN(Payload(e))>> \o ExpectedRun(Tail(evs))
               [] e.type = "log" /\ e.data = << >> -> ExpectedRun(Tail(evs))
               [] e.type = "completion" /\ HasPayload(e) ->
                      <<NextN(Payload(e)), CompleteN>>
               [] e.type = "completion" /\ e.data = << >> -> <<CompleteN>>

Connected(s) == lookup[s].state = "resolved"

\* C1 (as stated): for every subscription and every sequence of inbound
\* 'log', 'completion' and 'error' events the subscriber receives the payloads
\* in arrival order and the sequence ends exactly once, at the first
\* 'completion' event (after its payload) or at the first error event, with
\* nothing received after the end.
C1_EndsAtCompletionOrErrorEvent ==
    \A s \in Subs :
        Connected(s) =>
            /\ IsPrefix(Received(s), ClaimedRun(arrived[s]))
            /\ ~unsubscribed[s] => Received(s) = ClaimedRun(arrived[s])

\* C1 (amended): the subscriber receives the parsed payloads of the events
\* with non-empty data in arrival order, and the sequence ends exactly once:
\* at the first 'completion' event (after its payload, if it has one), at the
\* first 'error' event, or at the first 'log' or 'completion' event whose
\* non-empty data is not JSON (with the parse error); nothing is received
\* after the end, nor after an unsubscribe.
C1_EndsAtCompletionErrorOrMalformed ==
    \A s \in Subs :
        Connected(s) =>
            /\ IsPrefix(Received(s), ExpectedRun(arrived[s]))
            /\ ~unsubscribed[s] => Received(s) = ExpectedRun(arrived[s])

\* A payload was delivered, then a malformed 'log' payload ended the sequence
\* with the parse error.
C1_Witness ==
    /\ Connected(1) /\ ~unsubscribed[1]
    /\ arrived[1] = << [type |-> "log", data |-> <<"{\"id\":\"2\",\"type\":\"log\"}">>],
                       [type |-> "log", data |-> <<"oops">>] >>
    /\ Len(Received(1)) = 2
    /\ Received(1)[1].kind = "next"
    /\ GetField(Received(1)[1].value, "id") = "2"
    /\ Received(1)[2] = ErrorN("SyntaxError")
    /\ subscription[1].state = "closed"

\* C2: in every state where a subscription is ended (completed, errored or
\* unsubscribed, also before the discovery lookup resolved) no connection
\* opened for it remains open.
C2_ConnectionReleasedAtEnd ==
    \A s \in Subs :
        subscription[s].state = "closed"
            => eventSource[s].readyState \in {"NONE", "CLOSED"}

\* C4: whenever the identity provider supplies a token every outbound request
\* (scaffold, getTask, the event stream connection) carries the Authorization
\* bearer header with it; with no token no Authorization header is sent.
C4_EveryRequestCarriesToken ==
    \A r \in requests :
        IF Truthy(idToken)
        THEN Bearer(idToken) \in r.headers
        ELSE \A h \in r.headers : h[1] # "Authorization"

\* C5: the event stream is opened at {baseUrl}/v2/tasks/{taskId}/eventstream
\* with the query ?after=N when after is given and with no query otherwise.
C5_StreamUrlCarriesAfter ==
    \A r \in requests :
        r.op = "streamLogs" =>
            \E baseUrl \in BaseUrls :
                r.url = <<baseUrl, "/v2/tasks/">>
                           \o encodeURIComponent(observable.taskId)
                           \o <<"/eventstream">>
                           \o (IF observable.after # << >>
                               THEN <<"?after=", NumberString(observable.after[1])>>
                               ELSE << >>)

\* The first event of arrived[s] that ends a sequence, 0 if there is none.
FirstEnding(s) ==
    LET ends == { i \in 1..Len(arrived[s]) :
                    \/ arrived[s][i].type \in {"completion", "error"}
                    \/ Malformed(arrived[s][i]) }
    IN  IF ends = {} THEN 0 ELSE CHOOSE i \in ends : \A j \in ends : i <= j

IsFailure(e) == e.type = "error" \/ Malformed(e)

\* First half of C8: a malformed payload or a transport error ends the
\* sequence with an error, never with a completion.
C8_FailureIsTerminalError ==
    \A s \in Subs :
        (/\ Connected(s) /\ ~unsubscribed[s]
         /\ FirstEnding(s) # 0 /\ IsFailure(arrived[s][FirstEnding(s)]))
            => /\ subscription[s].state = "closed"
               /\ Received(s) # << >>
               /\ Received(s)[Len(Received(s))].kind = "error"
               /\ \A i \in 1..Len(Received(s)) : Received(s)[i].kind # "complete"

\* Second half of C8: a subscription that ended with an error has made no
\* connection attempt after its first one.
C8_NoFurtherAttempt ==
    \A s \in Subs :
        (Received(s) # << >> /\ Received(s)[Len(Received(s))].kind = "error")
            => \A r \in requests :
                   (r.op = "streamLogs" /\ r.sub = s) => r.attempt = 1

\* C8: a malformed payload on a 'log' or 'completion' event and any transport
\* error is surfaced as a terminal error (a malformed 'completion' never as a
\* completion), and after it no reconnect is made: no further connection
\* attempt for that subscription.
C8_FailuresAreTerminalAndNotRetried ==
    C8_FailureIsTerminalError /\ C8_NoFurtherAttempt

Subscribed == { s \in Subs : subscription[s].state # "none" }

\* Every connection request made for subscription s, reconnections included.
StreamConnections(s) ==
    { r \in requests : r.op = "streamLogs" /\ r.sub = s }

ErrorEvents(s) ==
    { i \in 1..Len(arrived[s]) : arrived[s][i].type = "error" }

NextValues(s) ==
    { Received(s)[i].value : i \in { j \in 1..Len(Received(s)) :
                                       Received(s)[j].kind = "next" } }

Payloads(s) ==
    { Payload(arrived[s][i]) : i \in { j \in 1..Len(arrived[s]) :
                                         HasPayload(arrived[s][j]) } }

====
